---- MODULE Spec2Model ----
(***************************************************************************)
(* A model of beanquery's column rendering (query_render, exercised by     *)
(* query_render_test.py), of the text table entry point (render/text.py)   *)
(* and of the CSV source's boolean literal parser (sources/csv.py).        *)
(*                                                                         *)
(* Strings are sequences of one-character strings, so that len(), strip(), *)
(* lower(), ljust() and rjust() are computed character by character.       *)
(***************************************************************************)
EXTENDS Integers, Sequences, FiniteSets, TLC

VARIABLES
    rtype,      \* render: the renderer class of the column
    rdr,        \* render: the renderer's fields
    observed,   \* render: the values update() was called with, in order
    phase,      \* render: "update" until prepare() is called, then "prepared"
    formatted,  \* render: the last format() call, its argument and result
    value,      \* csv: the literal handed to __parse_bool
    result,     \* csv: what __parse_bool did with it (return or raise)
    csvpc,      \* csv: "input" while the literal is read, "done" after the call
    file,       \* text: the output sink, a sequence of lines
    call,       \* text: the last render() call and what it did
    ncalls      \* text: number of render() calls made

renderVars == <<rtype, rdr, observed, phase, formatted>>
csvVars == <<value, result, csvpc>>
textVars == <<file, call, ncalls>>
vars == <<rtype, rdr, observed, phase, formatted, value, result, csvpc, file, call, ncalls>>

(***************************************************************************)
(* Bounds.                                                                 *)
(***************************************************************************)
MaxLen == 5
MaxObs == 3
MaxRows == 2
MaxCalls == 2

(***************************************************************************)
(* Strings.                                                                *)
(***************************************************************************)
Max(a, b) == IF a >= b THEN a ELSE b

RECURSIVE Spaces(_)
Spaces(n) == IF n <= 0 THEN <<>> ELSE <<" ">> \o Spaces(n - 1)

RECURSIVE Dashes(_)
Dashes(n) == IF n <= 0 THEN <<>> ELSE <<"-">> \o Dashes(n - 1)

\* str.ljust(w): pad on the right, never truncate.
ljust(s, w) == s \o Spaces(w - Len(s))

\* str.rjust(w): pad on the left, never truncate.
rjust(s, w) == Spaces(w - Len(s)) \o s

\* Python's str.isspace() on the characters of the model's alphabet.
IsSpace(c) == c \in {" ", "\t", "\n", "\r"}

UpperOf ==
    [c \in {"a", "e", "f", "l", "r", "s", "t", "u"} |->
        CASE c = "a" -> "A" [] c = "e" -> "E" [] c = "f" -> "F" [] c = "l" -> "L"
          [] c = "r" -> "R" [] c = "s" -> "S" [] c = "t" -> "T" [] c = "u" -> "U"]

\* str.lower() on one character.
LowerChar(c) ==
    IF \E l \in DOMAIN UpperOf : UpperOf[l] = c
    THEN CHOOSE l \in DOMAIN UpperOf : UpperOf[l] = c
    ELSE c

lower(s) == [i \in 1..Len(s) |-> LowerChar(s[i])]

RECURSIVE lstrip(_)
lstrip(s) == IF s # <<>> /\ IsSpace(Head(s)) THEN lstrip(Tail(s)) ELSE s

RECURSIVE rstrip(_)
rstrip(s) ==
    IF s # <<>> /\ IsSpace(s[Len(s)]) THEN rstrip(SubSeq(s, 1, Len(s) - 1)) ELSE s

strip(s) == rstrip(lstrip(s))

(***************************************************************************)
(* Python values and their str().                                          *)
(***************************************************************************)
None == [t |-> "none"]
Bool(b) == [t |-> "bool", b |-> b]
Str(s) == [t |-> "str", s |-> s]
Integer(n) == [t |-> "int", n |-> n]
\* Decimal: sign, integer part, fractional digits as written (its scale is
\* their number).
D(neg, ip, frac) == [t |-> "dec", neg |-> neg, ip |-> ip, frac |-> frac]
Date(y, m, d) == [t |-> "date", y |-> y, m |-> m, d |-> d]
\* A set of strings, as the sequence its iteration yields.
SetOf(items) == [t |-> "set", items |-> items]
\* beancount.core.amount.Amount
A(number, currency) == [t |-> "amount", number |-> number, currency |-> currency]
\* beancount.core.position.Position; cost is an amount or None.
Position(units, cost) == [t |-> "position", units |-> units, cost |-> cost]
\* beancount.core.inventory.Inventory, as the sequence of its positions.
Inventory(positions) == [t |-> "inventory", positions |-> positions]

DigitChars == <<"0", "1", "2", "3", "4", "5", "6", "7", "8", "9">>

RECURSIVE NatToStr(_)
NatToStr(n) ==
    IF n < 10 THEN <<DigitChars[n + 1]>>
    ELSE NatToStr(n \div 10) \o <<DigitChars[(n % 10) + 1]>>

\* str(int)
IntToStr(n) == IF n < 0 THEN <<"-">> \o NatToStr(-n) ELSE NatToStr(n)

Abs(n) == IF n < 0 THEN -n ELSE n

\* str.zfill(w)
RECURSIVE zfill(_, _)
zfill(s, w) == IF Len(s) >= w THEN s ELSE zfill(<<"0">> \o s, w)

FracToStr(frac) == [i \in 1..Len(frac) |-> DigitChars[frac[i] + 1]]

\* The sign and the integer digits of a Decimal.
DecIntStr(d) == (IF d.neg THEN <<"-">> ELSE <<>>) \o NatToStr(d.ip)

\* str(Decimal)
DecToStr(d) ==
    DecIntStr(d) \o (IF d.frac = <<>> THEN <<>> ELSE <<".">> \o FracToStr(d.frac))

\* datetime.date.isoformat()
DateToStr(v) ==
    zfill(NatToStr(v.y), 4) \o <<"-">> \o zfill(NatToStr(v.m), 2)
        \o <<"-">> \o zfill(NatToStr(v.d), 2)

\* str(value) for the values an ObjectRenderer column holds.
PyStr(v) ==
    CASE v.t = "str" -> v.s
      [] v.t = "int" -> IntToStr(v.n)
      [] v.t = "dec" -> DecToStr(v)
      [] v.t = "date" -> DateToStr(v)

\* sep.join(items)
RECURSIVE join(_, _)
join(sep, items) ==
    IF items = <<>> THEN <<>>
    ELSE IF Len(items) = 1 THEN items[1]
    ELSE items[1] \o sep \o join(sep, Tail(items))

(***************************************************************************)
(* RenderContext, as the tests' setUp builds it.                           *)
(***************************************************************************)
USD == <<"U", "S", "D">>
HOOL == <<"H", "O", "O", "L">>
CA == <<"C", "A">>
CAAD == <<"C", "A", "A", "D">>
CAD == <<"C", "A", "D">>
AAPL == <<"A", "A", "P", "L">>

\* The display context's precision for a currency: the largest scale it was
\* updated with (1.00 and 1.0000 USD, 1.00 CAD, 1.000 HOOL, 1 CA, 1.00 AAPL),
\* 0 for a currency it never saw.
dcontext_precision(currency) ==
    CASE currency = USD -> 4
      [] currency = CAD -> 2
      [] currency = HOOL -> 3
      [] currency = CA -> 0
      [] currency = AAPL -> 2
      [] OTHER -> 0

RenderContext(sep) == [listsep |-> sep, expand |-> TRUE]

(***************************************************************************)
(* The column renderers: update() observes a value, prepare() fixes the    *)
(* width, width() reads it, format() renders one value.                    *)
(***************************************************************************)

\* ---- ObjectRenderer: str() of anything, left-justified.
ObjectRenderer == [maxlen |-> 0, width |-> 0]

ObjectRenderer_update(self, v) ==
    IF v.t = "none" THEN self
    ELSE [self EXCEPT !.maxlen = Max(self.maxlen, Len(PyStr(v)))]

ObjectRenderer_prepare(self) == [self EXCEPT !.width = self.maxlen]

ObjectRenderer_format(self, v) ==
    IF v.t = "none" THEN Spaces(self.width) ELSE ljust(PyStr(v), self.width)

\* ---- BoolRenderer: "TRUE" and "FALSE", left-justified; the column is as
\* wide as the widest literal observed.
BoolRenderer == [maxwidth |-> 0, width |-> 0]

\* Mutant: the column is always as wide as "FALSE".
BoolRenderer_update_AlwaysFive(self, v) == [self EXCEPT !.maxwidth = 5]

BoolRenderer_update(self, v) ==
    [self EXCEPT !.maxwidth = Max(self.maxwidth, IF v.b THEN 4 ELSE 5)]

BoolRenderer_prepare(self) == [self EXCEPT !.width = self.maxwidth]

\* Mutant: the literal is not padded to the column's width.
BoolRenderer_format_Unpadded(self, v) ==
    IF v.b THEN <<"T", "R", "U", "E">> ELSE <<"F", "A", "L", "S", "E">>

BoolRenderer_format(self, v) ==
    ljust(IF v.b THEN <<"T", "R", "U", "E">> ELSE <<"F", "A", "L", "S", "E">>,
          self.width)

\* ---- StringRenderer: left-justified; None is the empty string.
StringRenderer == [maxlen |-> 0, width |-> 0]

StringRenderer_update(self, v) ==
    IF v.t = "none" THEN self
    ELSE [self EXCEPT !.maxlen = Max(self.maxlen, Len(v.s))]

StringRenderer_prepare(self) == [self EXCEPT !.width = self.maxlen]

StringRenderer_format(self, v) ==
    IF v.t = "none" THEN Spaces(self.width) ELSE ljust(v.s, self.width)

\* ---- SetRenderer: the members joined by the context's listsep.
SetRenderer(ctx) == [sep |-> ctx.listsep, maxlen |-> 0, width |-> 0]

SetRenderer_update(self, v) ==
    [self EXCEPT !.maxlen = Max(self.maxlen, Len(join(self.sep, v.items)))]

SetRenderer_prepare(self) == [self EXCEPT !.width = self.maxlen]

SetRenderer_format(self, v) == ljust(join(self.sep, v.items), self.width)

\* ---- DateRenderer: ISO-8601, always 10 characters.
DateRenderer == [width |-> 0]

DateRenderer_update(self, v) == self

DateRenderer_prepare(self) == [self EXCEPT !.width = 10]

DateRenderer_format(self, v) == ljust(DateToStr(v), self.width)

\* ---- IntegerRenderer: right-justified; the width is fixed by prepare() and
\* format() pads to it without ever cutting a number.
IntegerRenderer == [has_negative |-> FALSE, max_digits |-> 1, width |-> 0]

IntegerRenderer_update(self, v) ==
    [self EXCEPT !.has_negative = self.has_negative \/ v.n < 0,
                 !.max_digits = Max(self.max_digits, Len(NatToStr(Abs(v.n))))]

IntegerRenderer_prepare(self) ==
    [self EXCEPT !.width = self.max_digits + (IF self.has_negative THEN 1 ELSE 0)]

\* Mutant: a number wider than the column is cut to the column's width.
IntegerRenderer_format_Truncating(self, v) ==
    SubSeq(rjust(IntToStr(v.n), self.width), 1, self.width)

IntegerRenderer_format(self, v) == rjust(IntToStr(v.n), self.width)

\* ---- DecimalRenderer: numbers aligned on the decimal point. int_digits and
\* scale are the widest integer part and the longest fraction observed; None
\* is skipped by update() and rendered blank.
DecimalRenderer == [has_negative |-> FALSE, int_digits |-> 0, scale |-> 0, width |-> 0]

\* Mutant: the sign of negative values is not accounted for.
DecimalRenderer_update_NoSign(self, v) ==
    IF v.t = "none" THEN self
    ELSE [self EXCEPT !.int_digits = Max(self.int_digits, Len(NatToStr(v.ip))),
                      !.scale = Max(self.scale, Len(v.frac))]

DecimalRenderer_update(self, v) ==
    IF v.t = "none" THEN self
    ELSE [self EXCEPT !.has_negative = self.has_negative \/ v.neg,
                      !.int_digits = Max(self.int_digits, Len(NatToStr(v.ip))),
                      !.scale = Max(self.scale, Len(v.frac))]

\* Width of the sign and the integer digits, left of the decimal point.
DecimalRenderer_intwidth(self) ==
    self.int_digits + (IF self.has_negative THEN 1 ELSE 0)

DecimalRenderer_prepare(self) ==
    [self EXCEPT !.width = DecimalRenderer_intwidth(self)
                            + (IF self.scale > 0 THEN 1 + self.scale ELSE 0)]

\* Mutant: every number is padded with zeros to the column's scale.
DecimalRenderer_format_ZeroPadded(self, v) ==
    IF v.t = "none" THEN Spaces(self.width)
    ELSE LET k == IF Len(v.frac) < self.scale THEN Len(v.frac) ELSE self.scale
             body == rjust(DecIntStr(v), DecimalRenderer_intwidth(self))
                        \o (IF self.scale > 0
                            THEN <<".">> \o FracToStr(SubSeq(v.frac, 1, k))
                                    \o [i \in 1..(self.scale - k) |-> "0"]
                            ELSE <<>>)
         IN  ljust(body, self.width)

\* Mutant: None is rendered as the empty string whatever the column held.
DecimalRenderer_format_NoneEmpty(self, v) ==
    IF v.t = "none" THEN <<>>
    ELSE LET k == IF Len(v.frac) < self.scale THEN Len(v.frac) ELSE self.scale
             body == rjust(DecIntStr(v), DecimalRenderer_intwidth(self))
                        \o (IF k > 0 THEN <<".">> \o FracToStr(SubSeq(v.frac, 1, k))
                            ELSE <<>>)
         IN  ljust(body, self.width)

\* The integer part right-justified to the integer sub-width, then the
\* value's own fractional digits, cut at the column's scale, then spaces.
DecimalRenderer_format(self, v) ==
    IF v.t = "none" THEN Spaces(self.width)
    ELSE LET k == IF Len(v.frac) < self.scale THEN Len(v.frac) ELSE self.scale
             body == rjust(DecIntStr(v), DecimalRenderer_intwidth(self))
                        \o (IF k > 0 THEN <<".">> \o FracToStr(SubSeq(v.frac, 1, k))
                            ELSE <<>>)
         IN  ljust(body, self.width)

\* ---- AmountRenderer: a DecimalRenderer for the number, which also reserves
\* the display context's precision for the currency, and the currency code.
AmountRenderer == [rdr |-> DecimalRenderer, ccylen |-> 0, width |-> 0]

AmountRenderer_update(self, v) ==
    LET r == DecimalRenderer_update(self.rdr, v.number)
    IN  [self EXCEPT !.rdr = [r EXCEPT !.scale =
                                 Max(r.scale, dcontext_precision(v.currency))],
                     !.ccylen = Max(self.ccylen, Len(v.currency))]

AmountRenderer_prepare(self) ==
    LET r == DecimalRenderer_prepare(self.rdr)
    IN  [self EXCEPT !.rdr = r, !.width = r.width + 1 + self.ccylen]

\* Mutant: the currency code is not padded to the currency sub-width.
AmountRenderer_format_NoCurrencyPad(self, v) ==
    DecimalRenderer_format(self.rdr, v.number) \o <<" ">> \o v.currency

AmountRenderer_format(self, v) ==
    DecimalRenderer_format(self.rdr, v.number) \o <<" ">>
        \o ljust(v.currency, self.ccylen)

\* ---- PositionRenderer: the units and, once any position of the column has
\* a cost, the cost in braces.
PositionRenderer ==
    [units |-> AmountRenderer, cost |-> AmountRenderer, has_cost |-> FALSE, width |-> 0]

PositionRenderer_update(self, v) ==
    LET u == [self EXCEPT !.units = AmountRenderer_update(self.units, v.units)]
    IN  IF v.cost.t = "none" THEN u
        ELSE [u EXCEPT !.cost = AmountRenderer_update(self.cost, v.cost),
                       !.has_cost = TRUE]

PositionRenderer_prepare(self) ==
    LET u == AmountRenderer_prepare(self.units)
        c == AmountRenderer_prepare(self.cost)
    IN  [self EXCEPT !.units = u, !.cost = c,
                     !.width = u.width + (IF self.has_cost THEN 3 + c.width ELSE 0)]

PositionRenderer_format(self, v) ==
    AmountRenderer_format(self.units, v.units)
        \o (IF ~self.has_cost THEN <<>>
            ELSE IF v.cost.t = "none" THEN Spaces(3 + self.cost.width)
            ELSE <<" ", "{">> \o AmountRenderer_format(self.cost, v.cost) \o <<"}">>)

\* ---- InventoryRenderer: a PositionRenderer fed every position of every
\* inventory; format() gives one line per position.
InventoryRenderer == PositionRenderer

RECURSIVE InventoryRenderer_update(_, _)
InventoryRenderer_update(self, v) ==
    IF v.positions = <<>> THEN self
    ELSE InventoryRenderer_update(PositionRenderer_update(self, Head(v.positions)),
                                  Inventory(Tail(v.positions)))

InventoryRenderer_prepare(self) == PositionRenderer_prepare(self)

\* The lines of an inventory, in the order of its positions.
InventoryRenderer_lines(self, v) ==
    [i \in 1..Len(v.positions) |-> PositionRenderer_format(self, v.positions[i])]

(***************************************************************************)
(* What format() returns: a string, or for an inventory of several         *)
(* positions a list of strings.                                            *)
(***************************************************************************)
List(items) == [t |-> "list", items |-> items]

\* Mutant: a list even for an inventory of a single position.
InventoryRenderer_format_AlwaysList(self, v) == List(InventoryRenderer_lines(self, v))

InventoryRenderer_format(self, v) ==
    LET lines == InventoryRenderer_lines(self, v)
    IN  IF Len(lines) = 1 THEN Str(lines[1]) ELSE List(lines)

(***************************************************************************)
(* One column: a renderer is constructed, updated with every value of the  *)
(* column in row order, prepared once, and then asked to format values.    *)
(***************************************************************************)
Kinds ==
    {"object", "bool", "str", "set", "date", "int", "decimal", "amount",
     "position", "inventory"}

listsep == <<"+">>

ColumnRenderer_new(kind) ==
    CASE kind = "object" -> ObjectRenderer
      [] kind = "bool" -> BoolRenderer
      [] kind = "str" -> StringRenderer
      [] kind = "set" -> SetRenderer(RenderContext(listsep))
      [] kind = "date" -> DateRenderer
      [] kind = "int" -> IntegerRenderer
      [] kind = "decimal" -> DecimalRenderer
      [] kind = "amount" -> AmountRenderer
      [] kind = "position" -> PositionRenderer
      [] kind = "inventory" -> InventoryRenderer

ColumnRenderer_update(kind, self, v) ==
    CASE kind = "object" -> ObjectRenderer_update(self, v)
      [] kind = "bool" -> BoolRenderer_update(self, v)
      [] kind = "str" -> StringRenderer_update(self, v)
      [] kind = "set" -> SetRenderer_update(self, v)
      [] kind = "date" -> DateRenderer_update(self, v)
      [] kind = "int" -> IntegerRenderer_update(self, v)
      [] kind = "decimal" -> DecimalRenderer_update(self, v)
      [] kind = "amount" -> AmountRenderer_update(self, v)
      [] kind = "position" -> PositionRenderer_update(self, v)
      [] kind = "inventory" -> InventoryRenderer_update(self, v)

ColumnRenderer_prepare(kind, self) ==
    CASE kind = "object" -> ObjectRenderer_prepare(self)
      [] kind = "bool" -> BoolRenderer_prepare(self)
      [] kind = "str" -> StringRenderer_prepare(self)
      [] kind = "set" -> SetRenderer_prepare(self)
      [] kind = "date" -> DateRenderer_prepare(self)
      [] kind = "int" -> IntegerRenderer_prepare(self)
      [] kind = "decimal" -> DecimalRenderer_prepare(self)
      [] kind = "amount" -> AmountRenderer_prepare(self)
      [] kind = "position" -> PositionRenderer_prepare(self)
      [] kind = "inventory" -> InventoryRenderer_prepare(self)

ColumnRenderer_width(self) == self.width

ColumnRenderer_format(kind, self, v) ==
    CASE kind = "object" -> Str(ObjectRenderer_format(self, v))
      [] kind = "bool" -> Str(BoolRenderer_format(self, v))
      [] kind = "str" -> Str(StringRenderer_format(self, v))
      [] kind = "set" -> Str(SetRenderer_format(self, v))
      [] kind = "date" -> Str(DateRenderer_format(self, v))
      [] kind = "int" -> Str(IntegerRenderer_format(self, v))
      [] kind = "decimal" -> Str(DecimalRenderer_format(self, v))
      [] kind = "amount" -> Str(AmountRenderer_format(self, v))
      [] kind = "position" -> Str(PositionRenderer_format(self, v))
      [] kind = "inventory" -> InventoryRenderer_format(self, v)

\* The values of the columns checked: those of the tests, and a few more.
pos_usd == Position(A(D(FALSE, 100, <<0, 0>>), USD), None)
pos_hool == Position(A(D(FALSE, 5, <<>>), HOOL), A(D(FALSE, 500, <<2, 3>>), USD))
pos_caad == Position(A(D(FALSE, 12, <<3, 4, 5, 6>>), CAAD), None)
pos_ca == Position(A(D(TRUE, 33, <<>>), CA), A(D(FALSE, 7, <<5>>), CAD))

ColumnValues(kind) ==
    CASE kind = "object" ->
            {Str(<<"f", "o", "o">>), Integer(1), D(FALSE, 1, <<2, 3>>),
             Date(1970, 1, 1), None}
      [] kind = "bool" -> {Bool(TRUE), Bool(FALSE)}
      [] kind = "str" ->
            {Str(<<"a">>), Str(<<"b", "b">>), Str(<<"c", "c", "c">>), Str(<<>>), None}
      [] kind = "set" ->
            {SetOf(<<>>), SetOf(<< <<"a", "a", "a", "a">> >>),
             SetOf(<< <<"b", "b">>, <<"c", "c", "c">> >>)}
      [] kind = "date" -> {Date(2014, 10, 3), Date(1970, 1, 1)}
      [] kind = "int" -> {Integer(0), Integer(1), Integer(33), Integer(-222), Integer(1000)}
      [] kind = "decimal" ->
            {None, D(FALSE, 1, <<>>), D(FALSE, 1, <<2, 3>>), D(FALSE, 0, <<1, 2, 3, 4>>),
             D(TRUE, 2, <<5>>), D(FALSE, 1000, <<>>)}
      [] kind = "amount" ->
            {A(D(FALSE, 0, <<0, 0, 0, 1>>), USD), A(D(FALSE, 20, <<0, 0, 2>>), HOOL),
             A(D(FALSE, 33, <<>>), CA), A(D(TRUE, 1098, <<2, 0>>), AAPL),
             A(D(FALSE, 12, <<3, 4, 5, 6>>), CAAD), A(D(FALSE, 100, <<0, 0>>), USD)}
      [] kind = "position" -> {pos_usd, pos_hool, pos_caad, pos_ca}
      [] kind = "inventory" ->
            {Inventory(<<pos_usd>>), Inventory(<<pos_hool>>),
             Inventory(<<pos_hool, pos_caad>>), Inventory(<<pos_ca, pos_usd>>),
             Inventory(<<pos_caad, pos_ca, pos_hool>>)}

\* Values format() is also called with although update() never saw them.
UnseenValues(kind) ==
    CASE kind = "int" -> {Integer(444), Integer(-444), Integer(3456789)}
      [] kind = "decimal" ->
            {D(FALSE, 2, <<3, 4, 5, 6, 7, 8, 9, 0>>), D(FALSE, 444, <<>>)}
      [] OTHER -> {}

NoCall == [t |-> "none"]

\* rdr.update(value)
Update(v) ==
    /\ phase = "update"
    /\ Len(observed) < MaxObs
    /\ rdr' = ColumnRenderer_update(rtype, rdr, v)
    /\ observed' = Append(observed, v)
    /\ UNCHANGED <<rtype, phase, formatted>>

\* rdr.prepare()
Prepare ==
    /\ phase = "update"
    /\ rdr' = ColumnRenderer_prepare(rtype, rdr)
    /\ phase' = "prepared"
    /\ UNCHANGED <<rtype, observed, formatted>>

\* rdr.format(value)
Format(v) ==
    /\ phase = "prepared"
    /\ formatted' = [t |-> "call", arg |-> v, out |-> ColumnRenderer_format(rtype, rdr, v)]
    /\ UNCHANGED <<rtype, rdr, observed, phase>>

RenderNext ==
    \/ \E v \in ColumnValues(rtype) : Update(v) /\ UNCHANGED <<csvVars, textVars>>
    \/ Prepare /\ UNCHANGED <<csvVars, textVars>>
    \/ \E v \in ColumnValues(rtype) \cup UnseenValues(rtype) :
            Format(v) /\ UNCHANGED <<csvVars, textVars>>

(***************************************************************************)
(* sources/csv.py                                                          *)
(***************************************************************************)
Alphabet == {"t", "r", "u", "e", "f", "a", "l", "s", "T", "1", "0", " "}

Return(v) == [kind |-> "return", val |-> v]
Raise(exc, arg) == [kind |-> "raise", exc |-> exc, arg |-> arg]
NoResult == [kind |-> "none"]

\* Mutant: the literal is compared without stripping the whitespace around it.
_parse_bool_NoStrip(v) ==
    LET x == lower(v)
    IN  IF x = <<"1">> \/ x = <<"t", "r", "u", "e">> THEN Return(TRUE)
        ELSE IF x = <<"0">> \/ x = <<"f", "a", "l", "s", "e">> THEN Return(FALSE)
        ELSE Raise("ValueError", v)

_parse_bool(v) ==
    LET x == lower(strip(v))
    IN  IF x = <<"1">> \/ x = <<"t", "r", "u", "e">> THEN Return(TRUE)
        ELSE IF x = <<"0">> \/ x = <<"f", "a", "l", "s", "e">> THEN Return(FALSE)
        ELSE Raise("ValueError", v)

\* One more character of the field read from the CSV file.
CsvRead(c) ==
    /\ csvpc = "input"
    /\ Len(value) < MaxLen
    /\ value' = Append(value, c)
    /\ UNCHANGED <<result, csvpc>>

\* Column.__call__ applies the converter registered for bool.
CsvConvert ==
    /\ csvpc = "input"
    /\ result' = _parse_bool(value)
    /\ csvpc' = "done"
    /\ UNCHANGED value

CsvNext ==
    \/ \E c \in Alphabet : CsvRead(c) /\ UNCHANGED <<renderVars, textVars>>
    \/ CsvConvert /\ UNCHANGED <<renderVars, textVars>>

(***************************************************************************)
(* query_render.render_text and render/text.py                             *)
(***************************************************************************)
Column(name, dtype) == [name |-> name, dtype |-> dtype]

\* Renderer selection by the column's declared type.
RendererKind(dtype) ==
    CASE dtype = "str" -> "str"
      [] dtype = "int" -> "int"
      [] OTHER -> "object"

RECURSIVE UpdateAll(_, _, _, _)
UpdateAll(kind, self, rows, c) ==
    IF rows = <<>> THEN self
    ELSE UpdateAll(kind, ColumnRenderer_update(kind, self, Head(rows)[c]), Tail(rows), c)

\* The prepared renderer of column c, fed the column's value of every row.
ColumnRendererOf(desc, rows, c) ==
    LET kind == RendererKind(desc[c].dtype)
    IN  ColumnRenderer_prepare(kind, UpdateAll(kind, ColumnRenderer_new(kind), rows, c))

ColumnWidth(desc, rows, c) ==
    Max(ColumnRenderer_width(ColumnRendererOf(desc, rows, c)), Len(desc[c].name))

\* The cells of one line, joined by two spaces.
TableLine(cells) == join(<<" ", " ">>, cells)

\* render_text: header, dashes, and one line per row, appended to the sink.
render_text(desc, rows, f) ==
    LET cols == 1..Len(desc)
        header == TableLine([c \in cols |-> ljust(desc[c].name, ColumnWidth(desc, rows, c))])
        dashes == TableLine([c \in cols |-> Dashes(ColumnWidth(desc, rows, c))])
        line(row) ==
            TableLine([c \in cols |->
                ljust(ColumnRenderer_format(RendererKind(desc[c].dtype),
                                            ColumnRendererOf(desc, rows, c), row[c]).s,
                      ColumnWidth(desc, rows, c))])
    IN  f \o <<header, dashes>> \o [i \in 1..Len(rows) |-> line(rows[i])]

\* Mutant: the empty row-set is not short-circuited.
render_NoGuard(desc, rows, f) ==
    [file |-> render_text(desc, rows, f), delegated |-> TRUE]

\* render/text.py render(): the sink afterwards, and whether render_text ran.
render(desc, rows, f) ==
    IF rows = <<>> THEN [file |-> f, delegated |-> FALSE]
    ELSE [file |-> render_text(desc, rows, f), delegated |-> TRUE]

\* The result sets rendered: one string column, or a string and an integer.
desc_str == <<Column(<<"i", "d">>, "str")>>
desc_str_int == <<Column(<<"a", "c", "c", "o", "u", "n", "t">>, "str"), Column(<<"n">>, "int")>>
Descs == {desc_str, desc_str_int}

RowValues(desc) ==
    IF desc = desc_str THEN {<<Str(<<"x">>)>>, <<Str(<<"y", "y", "y">>)>>}
    ELSE {<<Str(<<"x">>), Integer(7)>>, <<Str(<<"E", "x", "p", "e", "n", "s", "e", "s">>), Integer(-12)>>}

RowSets(desc) == UNION {[1..n -> RowValues(desc)] : n \in 0..MaxRows}

\* One call of render(desc, rows, file, dcontext=...).
Render(desc, rows) ==
    /\ ncalls < MaxCalls
    /\ LET r == render(desc, rows, file)
       IN  /\ file' = r.file
           /\ call' = [t |-> "call", desc |-> desc, rows |-> rows, before |-> file,
                       delegated |-> r.delegated]
    /\ ncalls' = ncalls + 1

TextNext ==
    /\ UNCHANGED <<renderVars, csvVars>>
    /\ \E desc \in Descs : \E rows \in RowSets(desc) : Render(desc, rows)

(***************************************************************************)
(* Specifications: one per component, the other components at rest.        *)
(***************************************************************************)
Init ==
    /\ rtype \in Kinds
    /\ rdr = ColumnRenderer_new(rtype)
    /\ observed = <<>>
    /\ phase = "update"
    /\ formatted = NoCall
    /\ value = <<>>
    /\ result = NoResult
    /\ csvpc = "input"
    /\ file = <<>>
    /\ call = NoCall
    /\ ncalls = 0

Next == RenderNext

Spec == Init /\ [][Next]_vars

IdleInit ==
    /\ rtype = "object"
    /\ rdr = ColumnRenderer_new("object")
    /\ observed = <<>>
    /\ phase = "update"
    /\ formatted = NoCall
    /\ value = <<>>
    /\ result = NoResult
    /\ csvpc = "input"
    /\ file = <<>>
    /\ call = NoCall
    /\ ncalls = 0

CsvSpec == IdleInit /\ [][CsvNext]_vars

TextSpec == IdleInit /\ [][TextNext]_vars

(***************************************************************************)
(* Properties.                                                             *)
(***************************************************************************)
Prepared == phase = "prepared"
Called == formatted.t = "call"
\* format() was called with a value the column observed.
CalledObserved == Called /\ \E i \in 1..Len(observed) : observed[i] = formatted.arg
NonNull(seq) == {seq[i] : i \in {j \in 1..Len(seq) : seq[j].t # "none"}}
SetMax(S) == CHOOSE x \in S : \A y \in S : y <= x
MaxOr0(S) == IF S = {} THEN 0 ELSE SetMax(S)
AllSpaces(s) == \A i \in 1..Len(s) : s[i] = " "
\* s is t preceded by spaces only, w characters in all.
RightJustified(s, t, w) ==
    /\ Len(s) = w
    /\ Len(t) <= w
    /\ SubSeq(s, w - Len(t) + 1, w) = t
    /\ AllSpaces(SubSeq(s, 1, w - Len(t)))
\* s is t followed by spaces only, w characters in all.
LeftJustified(s, t, w) ==
    /\ Len(s) = w
    /\ Len(t) <= w
    /\ SubSeq(s, 1, Len(t)) = t
    /\ AllSpaces(SubSeq(s, Len(t) + 1, w))

\* ---- C1
C1_Excepted ==
    /\ rtype = "decimal"
    /\ NonNull(observed) = {}
    /\ formatted.arg.t = "none"

\* C1 as stated: after update() of every value of V and one prepare(),
\* format(v) of every v in V returns a string of exactly width() characters;
\* a DecimalRenderer that observed no non-null value formats None to "".
C1_Original ==
    CalledObserved =>
        /\ formatted.out.t = "str"
        /\ IF C1_Excepted THEN Len(formatted.out.s) = 0
           ELSE Len(formatted.out.s) = ColumnRenderer_width(rdr)

\* C1 amended: the same, except that an InventoryRenderer formats an
\* inventory of n > 1 positions to a list of n strings, each of exactly
\* width() characters.
C1_WidthContract ==
    CalledObserved =>
        IF rtype = "inventory" /\ Len(formatted.arg.positions) > 1
        THEN /\ formatted.out.t = "list"
             /\ Len(formatted.out.items) = Len(formatted.arg.positions)
             /\ \A i \in 1..Len(formatted.out.items) :
                    Len(formatted.out.items[i]) = ColumnRenderer_width(rdr)
        ELSE /\ formatted.out.t = "str"
             /\ IF C1_Excepted THEN Len(formatted.out.s) = 0
                ELSE Len(formatted.out.s) = ColumnRenderer_width(rdr)

C1_Witness ==
    /\ rtype = "inventory"
    /\ observed = <<Inventory(<<pos_hool, pos_caad>>)>>
    /\ Called
    /\ formatted.arg = Inventory(<<pos_hool, pos_caad>>)
    /\ formatted.out.t = "list"
    /\ Len(formatted.out.items[2]) = 27

\* ---- C2
TRUE_ == <<"T", "R", "U", "E">>
FALSE_ == <<"F", "A", "L", "S", "E">>

\* C2 as stated, for a column that observed at least one boolean: the width
\* is 5 whatever was observed, format(True) is "TRUE " and format(False) is
\* "FALSE".
C2_Original ==
    (rtype = "bool" /\ Prepared /\ observed # <<>>) =>
        /\ ColumnRenderer_width(rdr) = 5
        /\ CalledObserved =>
               formatted.out.s = (IF formatted.arg.b THEN TRUE_ \o <<" ">> ELSE FALSE_)

\* C2 amended: for a column that observed at least one boolean, the width is
\* 5 when a False was observed and 4 when only True was; format(True) is
\* "TRUE" padded with spaces to that width and format(False), for an observed
\* False, is "FALSE".
C2_BoolWidth ==
    (rtype = "bool" /\ Prepared /\ observed # <<>>) =>
        /\ ColumnRenderer_width(rdr) = (IF Bool(FALSE) \in NonNull(observed) THEN 5 ELSE 4)
        /\ CalledObserved =>
               formatted.out.s =
                   (IF ~formatted.arg.b THEN FALSE_
                    ELSE IF Bool(FALSE) \in NonNull(observed) THEN TRUE_ \o <<" ">>
                    ELSE TRUE_)

C2_Witness ==
    /\ rtype = "bool"
    /\ observed = <<Bool(TRUE), Bool(TRUE)>>
    /\ Called
    /\ formatted.arg = Bool(TRUE)
    /\ formatted.out.s = TRUE_
    /\ ColumnRenderer_width(rdr) = 4

\* ---- C3
\* The width the observed integers call for: the digits of the largest
\* magnitude, one more when a negative was observed, at least 1.
IntegerWidthOf(seq) ==
    Max(1, MaxOr0({Len(NatToStr(Abs(v.n))) : v \in NonNull(seq)}))
        + (IF \E v \in NonNull(seq) : v.n < 0 THEN 1 ELSE 0)

\* C3: prepare() fixes the IntegerRenderer's width from the observed values;
\* afterwards format(v) of a value needing more characters returns all of
\* str(v), longer than width(), a value that fits is right-justified with
\* spaces to exactly width(), and width() stays what prepare() made it.
C3_IntegerOverflow ==
    (rtype = "int" /\ Prepared) =>
        /\ ColumnRenderer_width(rdr) = IntegerWidthOf(observed)
        /\ Called =>
               /\ formatted.out.t = "str"
               /\ IF Len(IntToStr(formatted.arg.n)) > IntegerWidthOf(observed)
                  THEN /\ formatted.out.s = IntToStr(formatted.arg.n)
                       /\ Len(formatted.out.s) > ColumnRenderer_width(rdr)
                  ELSE RightJustified(formatted.out.s, IntToStr(formatted.arg.n),
                                      IntegerWidthOf(observed))

C3_Witness ==
    /\ rtype = "int"
    /\ observed = <<Integer(1), Integer(33), Integer(1000)>>
    /\ Called
    /\ formatted.arg = Integer(3456789)
    /\ formatted.out.s = <<"3", "4", "5", "6", "7", "8", "9">>
    /\ ColumnRenderer_width(rdr) = 4

\* ---- C4
DecimalScaleOf(vals) == MaxOr0({Len(v.frac) : v \in vals})
\* The integer digits of the observed value with the largest integer part.
DecimalIntDigitsOf(vals) ==
    IF vals = {} THEN 0 ELSE Len(NatToStr(SetMax({v.ip : v \in vals})))
DecimalSignOf(vals) == IF \E v \in vals : v.neg THEN 1 ELSE 0

\* C4: after any updates (None among them) and prepare(), a DecimalRenderer's
\* scale is the largest number of fractional digits of the non-null values
\* (0 without any), int_digits the integer digits of the value with the
\* largest integer part, and width() is int_digits, plus 1 + scale when
\* scale > 0, plus 1 when a negative value was observed.
C4_DecimalWidth ==
    (rtype = "decimal" /\ Prepared) =>
        LET vals == NonNull(observed)
        IN  /\ rdr.scale = DecimalScaleOf(vals)
            /\ vals # {} => rdr.int_digits = DecimalIntDigitsOf(vals)
            /\ ColumnRenderer_width(rdr) =
                   rdr.int_digits
                   + (IF DecimalScaleOf(vals) > 0 THEN 1 + DecimalScaleOf(vals) ELSE 0)
                   + DecimalSignOf(vals)

C4_Witness ==
    /\ rtype = "decimal"
    /\ Prepared
    /\ observed = <<D(FALSE, 1000, <<>>), None, D(TRUE, 2, <<5>>)>>
    /\ ColumnRenderer_width(rdr) = 7

\* ---- C5
RECURSIVE Zeros(_)
Zeros(n) == IF n <= 0 THEN <<>> ELSE <<"0">> \o Zeros(n - 1)

\* v with exactly n fractional digits: cut, or padded with zeros.
DecimalQuantized(v, n) ==
    DecIntStr(v)
        \o (IF n = 0 THEN <<>>
            ELSE <<".">> \o FracToStr(SubSeq(v.frac, 1, IF Len(v.frac) < n THEN Len(v.frac) ELSE n))
                    \o Zeros(n - Len(v.frac)))

DecimalFormatted == rtype = "decimal" /\ Called /\ formatted.arg.t # "none"

\* C5 as stated: format(v) of a non-null v is v with exactly `scale`
\* fractional digits, zeros appended when v has fewer, right-justified
\* within width().
C5_Original ==
    (DecimalFormatted /\ Len(DecimalQuantized(formatted.arg, rdr.scale)) <= rdr.width) =>
        RightJustified(formatted.out.s, DecimalQuantized(formatted.arg, rdr.scale),
                       rdr.width)

\* v's sign and integer digits fit left of the column's decimal point.
DecimalFits(v, vals) ==
    Len(DecIntStr(v)) <= DecimalIntDigitsOf(vals) + DecimalSignOf(vals)

\* C5 amended: format(v) of a non-null v that fits the column is width()
\* characters: v's sign and integer digits right-justified to the integer
\* sub-width (int_digits, plus 1 when a negative was observed), then, when v
\* has fractional digits and scale > 0, the point and v's own fractional
\* digits, at most `scale` of them, then spaces: no zeros are appended.
C5_DecimalFormat ==
    (DecimalFormatted /\ DecimalFits(formatted.arg, NonNull(observed))) =>
        LET vals == NonNull(observed)
            v == formatted.arg
            out == formatted.out.s
            intw == DecimalIntDigitsOf(vals) + DecimalSignOf(vals)
            k == IF Len(v.frac) < DecimalScaleOf(vals) THEN Len(v.frac)
                 ELSE DecimalScaleOf(vals)
        IN  /\ Len(out) = rdr.width
            /\ RightJustified(SubSeq(out, 1, intw), DecIntStr(v), intw)
            /\ IF k = 0 THEN AllSpaces(SubSeq(out, intw + 1, Len(out)))
               ELSE /\ out[intw + 1] = "."
                    /\ SubSeq(out, intw + 2, intw + 1 + k) = FracToStr(SubSeq(v.frac, 1, k))
                    /\ AllSpaces(SubSeq(out, intw + 2 + k, Len(out)))

C5_Witness ==
    /\ rtype = "decimal"
    /\ observed = <<D(FALSE, 0, <<1, 2, 3, 4>>)>>
    /\ Called
    /\ formatted.arg = D(FALSE, 1, <<>>)
    /\ formatted.out.s = <<"1", " ", " ", " ", " ", " ">>

\* ---- C6
\* C6: a DecimalRenderer prepared after no update() at all has width 0 and
\* formats None to the empty string; one that observed a non-null value,
\* with any None before or after it, formats None to width() spaces.
C6_DecimalNone ==
    (rtype = "decimal" /\ Prepared) =>
        /\ observed = <<>> =>
               /\ ColumnRenderer_width(rdr) = 0
               /\ (Called /\ formatted.arg.t = "none") => formatted.out.s = <<>>
        /\ (NonNull(observed) # {} /\ Called /\ formatted.arg.t = "none") =>
               /\ Len(formatted.out.s) = ColumnRenderer_width(rdr)
               /\ AllSpaces(formatted.out.s)
               /\ formatted.out.s # <<>>

C6_Witness ==
    /\ rtype = "decimal"
    /\ observed = <<None, D(FALSE, 0, <<1, 2, 3, 4>>), None>>
    /\ Called
    /\ formatted.arg = None
    /\ formatted.out.s = <<" ", " ", " ", " ", " ", " ">>

\* ---- C7
\* The currency sub-width: the longest code observed.
CurrencyWidthOf(amounts) == MaxOr0({Len(a.currency) : a \in amounts})
\* The number sub-width: that of a decimal column holding the numbers, with
\* the display context's precision reserved for each currency observed.
NumberWidthOf(amounts) ==
    LET numbers == {a.number : a \in amounts}
        scale == MaxOr0({Max(Len(a.number.frac), dcontext_precision(a.currency)) :
                            a \in amounts})
    IN  DecimalIntDigitsOf(numbers) + DecimalSignOf(numbers)
            + (IF scale > 0 THEN 1 + scale ELSE 0)
AmountWidthOf(amounts) ==
    NumberWidthOf(amounts) + 1 + CurrencyWidthOf(amounts)

AmountFormatted == rtype = "amount" /\ CalledObserved

\* C7 as stated: every formatted amount is the number right-justified to the
\* shared number width, one space, and the currency left-justified to the
\* shared currency width (the longest code observed), width() being
\* numberWidth + 1 + currencyWidth.
C7_Original ==
    AmountFormatted =>
        LET cw == CurrencyWidthOf(NonNull(observed))
            nw == ColumnRenderer_width(rdr) - 1 - cw
            out == formatted.out.s
        IN  /\ Len(out) = ColumnRenderer_width(rdr)
            /\ RightJustified(SubSeq(out, 1, nw), DecToStr(formatted.arg.number), nw)
            /\ out[nw + 1] = " "
            /\ LeftJustified(SubSeq(out, nw + 2, Len(out)), formatted.arg.currency, cw)

\* C7 amended: every formatted amount is the number as the column's decimal
\* sub-renderer formats it (integer part right-justified to the shared
\* integer width so that the decimal points align, then its own fractional
\* digits, then spaces up to the shared number width), one space, and the
\* currency left-justified to the shared currency width (the longest code
\* observed); the number width reserves the display context's precision of
\* every currency observed, width() is numberWidth + 1 + currencyWidth and
\* all formatted rows have that length.
C7_AmountLayout ==
    AmountFormatted =>
        LET amounts == NonNull(observed)
            numbers == {a.number : a \in amounts}
            cw == CurrencyWidthOf(amounts)
            nw == NumberWidthOf(amounts)
            intw == DecimalIntDigitsOf(numbers) + DecimalSignOf(numbers)
            v == formatted.arg.number
            out == formatted.out.s
        IN  /\ ColumnRenderer_width(rdr) = nw + 1 + cw
            /\ Len(out) = nw + 1 + cw
            /\ RightJustified(SubSeq(out, 1, intw), DecIntStr(v), intw)
            /\ LeftJustified(SubSeq(out, intw + 1, nw),
                             IF v.frac = <<>> THEN <<>> ELSE <<".">> \o FracToStr(v.frac),
                             nw - intw)
            /\ out[nw + 1] = " "
            /\ LeftJustified(SubSeq(out, nw + 2, Len(out)), formatted.arg.currency, cw)

C7_Witness ==
    /\ rtype = "amount"
    /\ observed = <<A(D(FALSE, 0, <<0, 0, 0, 1>>), USD), A(D(FALSE, 20, <<0, 0, 2>>), HOOL),
                    A(D(FALSE, 33, <<>>), CA)>>
    /\ Called
    /\ formatted.arg = A(D(FALSE, 20, <<0, 0, 2>>), HOOL)
    /\ formatted.out.s = <<"2", "0", ".", "0", "0", "2", " ", " ", "H", "O", "O", "L">>

\* ---- C8
RECURSIVE AllPositions(_)
\* Every position of every inventory of the column.
AllPositions(seq) ==
    IF seq = <<>> THEN {}
    ELSE {Head(seq).positions[i] : i \in 1..Len(Head(seq).positions)}
            \cup AllPositions(Tail(seq))

\* The lines format() returned, whether as one string or as a list.
FormattedLines ==
    IF formatted.out.t = "list" THEN formatted.out.items ELSE <<formatted.out.s>>

RECURSIVE PositionRendererFor(_, _)
\* A PositionRenderer updated with the positions of ps, in any order.
PositionRendererFor(self, ps) ==
    IF ps = {} THEN self
    ELSE LET p == CHOOSE q \in ps : TRUE
         IN  PositionRendererFor(PositionRenderer_update(self, p), ps \ {p})

\* C8: format() of an inventory of n > 1 positions gives n lines, one per
\* position in order, and of a single position the one line a
\* PositionRenderer gives; every line has the number, currency and cost
\* sub-columns at the widths of all positions of all inventories observed,
\* a position without cost being padded with spaces where the cost would
\* stand, so that all lines are width() long.
C8_InventoryLines ==
    (rtype = "inventory" /\ CalledObserved) =>
        LET ps == AllPositions(observed)
            inv == formatted.arg.positions
            units == {p.units : p \in ps}
            costs == {p.cost : p \in {q \in ps : q.cost.t # "none"}}
            uw == AmountWidthOf(units)
            cw == AmountWidthOf(costs)
            width == uw + (IF costs = {} THEN 0 ELSE 3 + cw)
            posrdr == PositionRenderer_prepare(PositionRendererFor(PositionRenderer, ps))
            lines == FormattedLines
        IN  /\ formatted.out.t = (IF Len(inv) > 1 THEN "list" ELSE "str")
            /\ Len(lines) = Len(inv)
            /\ ColumnRenderer_width(rdr) = width
            /\ \A i \in 1..Len(inv) :
                /\ Len(lines[i]) = width
                /\ lines[i] = PositionRenderer_format(posrdr, inv[i])
                /\ SubSeq(lines[i], uw - CurrencyWidthOf(units) + 1, uw)
                       = ljust(inv[i].units.currency, CurrencyWidthOf(units))
                /\ (costs # {} /\ inv[i].cost.t = "none") =>
                       AllSpaces(SubSeq(lines[i], uw + 1, width))
                /\ (costs # {} /\ inv[i].cost.t # "none") =>
                       /\ SubSeq(lines[i], uw + 1, uw + 2) = <<" ", "{">>
                       /\ lines[i][width] = "}"
                       /\ SubSeq(lines[i], width - CurrencyWidthOf(costs), width - 1)
                              = ljust(inv[i].cost.currency, CurrencyWidthOf(costs))

C8_Witness ==
    /\ rtype = "inventory"
    /\ observed = <<Inventory(<<pos_usd>>), Inventory(<<pos_hool, pos_caad>>)>>
    /\ Called
    /\ formatted.arg = Inventory(<<pos_hool, pos_caad>>)
    /\ Len(formatted.out.items) = 2
    /\ AllSpaces(SubSeq(formatted.out.items[2], 14, 28))

\* ---- C9
IsPrefix(s, t) == Len(s) <= Len(t) /\ SubSeq(t, 1, Len(s)) = s

\* C9: render() of an empty row-set writes nothing to the sink (no header,
\* no dashes) and does not reach render_text; a non-empty one is handed to
\* render_text, which appends a header, a line of dashes and one line per
\* row.
C9_EmptyRowSet ==
    call.t = "call" =>
        IF call.rows = <<>>
        THEN file = call.before /\ ~call.delegated
        ELSE /\ call.delegated
             /\ IsPrefix(call.before, file)
             /\ Len(file) = Len(call.before) + 2 + Len(call.rows)
             /\ \A i \in 1..Len(file[Len(call.before) + 2]) :
                    file[Len(call.before) + 2][i] \in {"-", " "}
             /\ \E i \in 1..Len(file[Len(call.before) + 2]) :
                    file[Len(call.before) + 2][i] = "-"

\* An empty row-set rendered to a sink that already holds a table.
C9_Witness ==
    /\ call.t = "call"
    /\ call.rows = <<>>
    /\ call.before # <<>>
    /\ file = call.before
    /\ ncalls = 2

\* ---- C10
\* s is the token in any mix of upper and lower case.
MatchesToken(s, token) ==
    /\ Len(s) = Len(token)
    /\ \A i \in 1..Len(s) :
          \/ s[i] = token[i]
          \/ token[i] \in DOMAIN UpperOf /\ s[i] = UpperOf[token[i]]

\* s is the token, in any case, between whitespace only.
IsLiteral(s, token) ==
    \E i \in 0..(Len(s) - Len(token)) :
        /\ \A k \in 1..i : IsSpace(s[k])
        /\ \A k \in (i + Len(token) + 1)..Len(s) : IsSpace(s[k])
        /\ MatchesToken(SubSeq(s, i + 1, i + Len(token)), token)

TrueLiteral(s) == IsLiteral(s, <<"1">>) \/ IsLiteral(s, <<"t", "r", "u", "e">>)
FalseLiteral(s) == IsLiteral(s, <<"0">>) \/ IsLiteral(s, <<"f", "a", "l", "s", "e">>)

\* C10: __parse_bool(s) returns True exactly when s, whitespace around it
\* trimmed and case ignored, is "1" or "true", False exactly when it is "0"
\* or "false", and for every other string, the empty one too, raises
\* ValueError carrying s itself.
C10_ParseBool ==
    csvpc = "done" =>
        LET isTrue == TrueLiteral(value)
            isFalse == FalseLiteral(value)
        IN  /\ isTrue <=> result = Return(TRUE)
            /\ isFalse <=> result = Return(FALSE)
            /\ ~(isTrue \/ isFalse) <=> result = Raise("ValueError", value)

C10_Witness ==
    /\ csvpc = "done"
    /\ value = <<" ", "T", "r", "u", "e">>
    /\ result = Return(TRUE)
====
